---------------------------- MODULE Spec2Model ----------------------------
(***************************************************************************)
(* Model of the SHARP memory-in-pixel display driver (src/src/lib.rs):     *)
(* the framebuffer, the per-row "touched" flags, the VCOM bit and the      *)
(* bytes and pin levels each driver call produces.                         *)
(*                                                                         *)
(* The driver is single-threaded and every call is synchronous, so each    *)
(* public method is one action.  What a call does to its collaborators     *)
(* (the SPI bus and the two output pins) is recorded in call.trace, the    *)
(* ordered list of pin changes and bus writes of the most recent call.     *)
(* The outcome of each bus write (accepted or failed) is an input of the   *)
(* action; pin operations are taken to succeed.                            *)
(***************************************************************************)
EXTENDS Integers, Sequences, FiniteSets, TLC

\* ------------------------------------------------------------------------
\* Panel profile (scaled down: the shipped profiles are 160x68, 240x240 and
\* 144x168; WIDTH is a whole number of bytes in every one of them).

HEIGHT == 4

WidthBytes == 1

WIDTH == 8 * WidthBytes

\* Columns and rows that set_pixel is called with.
PixelXs == {0, WIDTH - 1}

PixelYs == {0, HEIGHT - 1}

\* ------------------------------------------------------------------------
\* Protocol constants

DUMMY_DATA == 0

Lo == 0

Hi == 64

Nop == 0

ClearMemory == 32

WriteLine == 128

Off == FALSE

On == TRUE

\* Vcom::not (NotStuck: the faulty variant that returns its argument)
NotStuck(v) == v

Not(v) == IF v = Lo THEN Hi ELSE Lo

\* ------------------------------------------------------------------------
\* Bytes and bit arrays

Bit(b, i) == (b \div (2 ^ i)) % 2

\* u8 | u8, as in the BitOr impls of Vcom and Command
BitOr(a, b) ==
    LET or(i) == IF Bit(a, i) = 1 \/ Bit(b, i) = 1 THEN 2 ^ i ELSE 0
    IN  or(0) + or(1) + or(2) + or(3) + or(4) + or(5) + or(6) + or(7)

\* number of u8 elements that BitArr!(for n, in u8, ..) stores
Elts(n) == (n + 7) \div 8

\* A BitArr over u8 with Lsb0 order is its storage, a function from the
\* element index to a byte; bit index i lives in element i \div 8 at bit
\* position i % 8 counted from the least significant bit.  Its length is
\* the whole storage, 8 bits per element.
BitLen(arr) == 8 * Cardinality(DOMAIN arr)

BitGet(arr, i) == Bit(arr[i \div 8], i % 8) = 1

\* BitSetMsb0: the faulty variant of BitSet that counts bit positions from
\* the most significant bit
BitSetMsb0(arr, i, v) ==
    LET old == arr[i \div 8]
        p   == 7 - (i % 8)
        new == IF v THEN (IF Bit(old, p) = 1 THEN old ELSE old + 2 ^ p)
                    ELSE (IF Bit(old, p) = 1 THEN old - 2 ^ p ELSE old)
    IN  [arr EXCEPT ![i \div 8] = new]

BitSet(arr, i, v) ==
    LET old == arr[i \div 8]
        p   == i % 8
        new == IF v THEN (IF Bit(old, p) = 1 THEN old ELSE old + 2 ^ p)
                    ELSE (IF Bit(old, p) = 1 THEN old - 2 ^ p ELSE old)
    IN  [arr EXCEPT ![i \div 8] = new]

BitFill(arr, v) == [e \in DOMAIN arr |-> IF v THEN 255 ELSE 0]

\* BitSlice::iter_ones: the indices of the set bits, ascending, over the
\* whole length of the array
RECURSIVE OnesFrom(_, _)
OnesFrom(arr, i) ==
    IF i >= BitLen(arr) THEN <<>>
    ELSE IF BitGet(arr, i) THEN <<i>> \o OnesFrom(arr, i + 1)
    ELSE OnesFrom(arr, i + 1)

IterOnes(arr) == OnesFrom(arr, 0)

\* chunks(8) of a row: chunk k is the 8-bit slice holding bits 8k .. 8k+7,
\* a function from the slice index 0..7 to the bit
Chunk(arr, k) == [i \in 0..7 |-> IF BitGet(arr, 8 * k + i) THEN 1 ELSE 0]

\* BitSlice::<u8, Lsb0>::from_element
FromElement(b) == [i \in 0..7 |-> Bit(b, i)]

\* load::<u8>() of an 8-bit array in Msb0 order: index i is bit 7 - i
LoadMsb0(bits) ==
    128 * bits[0] + 64 * bits[1] + 32 * bits[2] + 16 * bits[3]
      + 8 * bits[4] + 4 * bits[5] + 2 * bits[6] + bits[7]

\* the same array read in Lsb0 order: index i is bit i
LoadLsb0(bits) ==
    bits[0] + 2 * bits[1] + 4 * bits[2] + 8 * bits[3]
      + 16 * bits[4] + 32 * bits[5] + 64 * bits[6] + 128 * bits[7]

\* MemoryDisplay::swap: copy slice index i to index i of an Msb0 array and
\* load it as a byte (SwapKeep: the faulty variant whose local array is Lsb0)
SwapKeep(byte) == LoadLsb0([i \in 0..7 |-> byte[i]])

swap(byte) ==
    LET local_buffer == [i \in 0..7 |-> byte[i]]
    IN  LoadMsb0(local_buffer)

\* ------------------------------------------------------------------------
\* State of a MemoryDisplay and what its collaborators have seen

VARIABLES
    buffer,       \* the framebuffer: one bit array of WIDTH bits per line
    touched,      \* bit array of the lines changed since the last flush
    vcom,         \* Lo or Hi
    clear_state,  \* BinaryColor painted by clear_buffer
    cs,           \* level of the chip-select pin (TRUE = high)
    disp,         \* level of the display-enable pin (TRUE = high)
    call,         \* the most recent call: its name, arguments, what it did
                  \* to the pins and the bus in order, and what it returned
    lastRef       \* VCOM bit carried by the command byte of the most recent
                  \* transaction on the bus, -1 before the first one

vars == <<buffer, touched, vcom, clear_state, cs, disp, call, lastRef>>

Rows == 0..(HEIGHT - 1)

\* ------------------------------------------------------------------------
\* Collaborators: OutputPin::set_high / set_low and spi::Write::write

PinEvent(pin, level) ==
    [kind |-> pin, high |-> level, data |-> <<>>, ok |-> TRUE]

\* one call of spi.write(data); ok is the transport's answer
SpiWrite(bytes, accepted) ==
    [kind |-> "spi", high |-> FALSE, data |-> bytes, ok |-> accepted]

\* the bus writes of a trace, in order
SpiWrites(trace) == SelectSeq(trace, LAMBDA e : e.kind = "spi")

\* the level a pin is left at by a trace, given its level before
RECURSIVE PinAfter(_, _, _)
PinAfter(trace, pin, before) ==
    IF trace = <<>> THEN before
    ELSE PinAfter(Tail(trace), pin,
                  IF Head(trace).kind = pin THEN Head(trace).high ELSE before)

\* Outcomes the transport may give to n writes: all accepted, exactly one
\* of them failed, or all failed.  The set holds the failed positions.
FailSets(n) == {{}} \cup {{k} : k \in 1..n} \cup {1..n}

\* the trace of writing datas[1..n] one spi.write each, failed \subseteq 1..n
Writes(datas, failed) ==
    [k \in 1..Len(datas) |-> SpiWrite(datas[k], k \notin failed)]

Record(name, arguments, events, result) ==
    [op |-> name, args |-> arguments, trace |-> events, ret |-> result]

\* VCOM bit (M1, 0x40) of a transmitted command byte
RefBitOf(cmd) == 64 * Bit(cmd, 6)

\* ------------------------------------------------------------------------
\* MemoryDisplay::new

Init ==
    /\ buffer = [y \in Rows |-> [e \in 0..(Elts(WIDTH) - 1) |-> 0]]
    /\ touched = [e \in 0..(Elts(HEIGHT) - 1) |-> 0]
    /\ vcom = Hi
    /\ clear_state = On
    /\ disp = FALSE
    /\ cs = FALSE
    /\ call = Record("new", <<>>,
                     <<PinEvent("disp", FALSE), PinEvent("cs", FALSE)>>,
                     "unit")
    /\ lastRef = -1

\* ------------------------------------------------------------------------
\* MemoryDisplay::set_clear_state

set_clear_state(state) ==
    /\ clear_state' = state
    /\ call' = Record("set_clear_state", <<state>>, <<>>, "unit")
    /\ UNCHANGED <<buffer, touched, vcom, cs, disp, lastRef>>

\* enable_chip_select: the faulty variant of enable that drives the other pin
enable_chip_select ==
    LET trace == <<PinEvent("cs", TRUE)>>
    IN  /\ disp' = PinAfter(trace, "disp", disp)
        /\ cs' = PinAfter(trace, "cs", cs)
        /\ call' = Record("enable", <<>>, trace, "unit")
        /\ UNCHANGED <<buffer, touched, vcom, clear_state, lastRef>>

\* MemoryDisplay::enable
enable ==
    LET trace == <<PinEvent("disp", TRUE)>>
    IN  /\ disp' = PinAfter(trace, "disp", disp)
        /\ cs' = PinAfter(trace, "cs", cs)
        /\ call' = Record("enable", <<>>, trace, "unit")
        /\ UNCHANGED <<buffer, touched, vcom, clear_state, lastRef>>

\* MemoryDisplay::disable
disable ==
    LET trace == <<PinEvent("disp", FALSE)>>
    IN  /\ disp' = PinAfter(trace, "disp", disp)
        /\ cs' = PinAfter(trace, "cs", cs)
        /\ call' = Record("disable", <<>>, trace, "unit")
        /\ UNCHANGED <<buffer, touched, vcom, clear_state, lastRef>>

\* MemoryDisplay::set_pixel, for coordinates inside the panel (the method
\* panics on any other); set_pixel_no_touch is the faulty variant that does
\* not mark the row
set_pixel_no_touch(x, y, val) ==
    /\ buffer' = [buffer EXCEPT ![y] = BitSet(buffer[y], x, val)]
    /\ call' = Record("set_pixel", <<x, y, val>>, <<>>, "unit")
    /\ UNCHANGED <<touched, vcom, clear_state, cs, disp, lastRef>>

set_pixel(x, y, val) ==
    /\ buffer' = [buffer EXCEPT ![y] = BitSet(buffer[y], x, val)]
    /\ touched' = BitSet(touched, y, TRUE)
    /\ call' = Record("set_pixel", <<x, y, val>>, <<>>, "unit")
    /\ UNCHANGED <<vcom, clear_state, cs, disp, lastRef>>

\* ------------------------------------------------------------------------
\* MemoryDisplay::flush_buffer

WRITE_BUFFER_SIZE == (WIDTH \div 8) + 2

\* BinaryColor::is_on
is_on(color) == color = On

\* WriteBufferSevenBit: the faulty variant of WriteBuffer that keeps seven
\* bits of the line number
WriteBufferSevenBit(y, line_buffer_msb) ==
    LET line_no == (y + 1) % 128
        line_no_bits_msb == FromElement(line_no)
        line_no_bits == swap(line_no_bits_msb)
    IN  [k \in 1..WRITE_BUFFER_SIZE |->
            IF k = 1 THEN line_no_bits
            ELSE IF k = WRITE_BUFFER_SIZE THEN DUMMY_DATA
            ELSE swap(Chunk(line_buffer_msb, k - 2))]

\* WriteBufferZeroBased: the faulty variant of WriteBuffer that numbers the
\* lines from 0
WriteBufferZeroBased(y, line_buffer_msb) ==
    LET line_no == y % 256
        line_no_bits_msb == FromElement(line_no)
        line_no_bits == swap(line_no_bits_msb)
    IN  [k \in 1..WRITE_BUFFER_SIZE |->
            IF k = 1 THEN line_no_bits
            ELSE IF k = WRITE_BUFFER_SIZE THEN DUMMY_DATA
            ELSE swap(Chunk(line_buffer_msb, k - 2))]

\* the write_buffer built for line y (lines 221-237): the swapped line
\* number (y + 1) as u8, the swapped 8-pixel chunks of the line, DUMMY_DATA
WriteBuffer(y, line_buffer_msb) ==
    LET line_no == (y + 1) % 256
        line_no_bits_msb == FromElement(line_no)
        line_no_bits == swap(line_no_bits_msb)
    IN  [k \in 1..WRITE_BUFFER_SIZE |->
            IF k = 1 THEN line_no_bits
            ELSE IF k = WRITE_BUFFER_SIZE THEN DUMMY_DATA
            ELSE swap(Chunk(line_buffer_msb, k - 2))]

\* LineBuffersBreakEarly: the faulty variant of LineBuffers that leaves the
\* loop one line too early
RECURSIVE LineBuffersBreakEarly(_, _)
LineBuffersBreakEarly(ys, buf) ==
    IF ys = <<>> THEN <<>>
    ELSE IF Head(ys) >= HEIGHT - 1 THEN <<>>
    ELSE <<WriteBuffer(Head(ys), buf[Head(ys)])>> \o LineBuffersBreakEarly(Tail(ys), buf)

\* the loop over touched.iter_ones(), left at the first index that is not a
\* line of the buffer: one write_buffer per line visited
RECURSIVE LineBuffers(_, _)
LineBuffers(ys, buf) ==
    IF ys = <<>> THEN <<>>
    ELSE IF Head(ys) >= HEIGHT THEN <<>>
    ELSE <<WriteBuffer(Head(ys), buf[Head(ys)])>> \o LineBuffers(Tail(ys), buf)

\* what flush_buffer hands to spi.write, one element per call, given the
\* already inverted vcom (FlushDatasTwoByteTrailer: the faulty variant that
\* ends with a two-byte trailer)
FlushDatasTwoByteTrailer(v) ==
    <<  <<BitOr(WriteLine, v)>>  >>
      \o LineBuffers(IterOnes(touched), buffer)
      \o <<  <<DUMMY_DATA, DUMMY_DATA>>  >>

FlushDatas(v) ==
    <<  <<BitOr(WriteLine, v)>>  >>
      \o LineBuffers(IterOnes(touched), buffer)
      \o <<  <<DUMMY_DATA>>  >>

\* touched after the flush whose bus writes were `writes`
\* (TouchedAfterFlushKeepAll: the faulty variant that clears nothing)
TouchedAfterFlushKeepAll(writes) == touched

TouchedAfterFlush(writes) == BitFill(touched, FALSE)

\* flush_buffer_skip_clean: the variant of flush_buffer that returns at once
\* when no line is marked
flush_buffer_skip_clean(failed) ==
    LET v == Not(vcom)
        writes == Writes(FlushDatas(v), failed)
        trace == <<PinEvent("cs", TRUE)>> \o writes \o <<PinEvent("cs", FALSE)>>
    IN  IF IterOnes(touched) = <<>>
        THEN /\ call' = Record("flush_buffer", <<>>, <<>>, "unit")
             /\ UNCHANGED <<buffer, touched, vcom, clear_state, cs, disp, lastRef>>
        ELSE /\ vcom' = v
             /\ touched' = TouchedAfterFlush(writes)
             /\ cs' = PinAfter(trace, "cs", cs)
             /\ disp' = PinAfter(trace, "disp", disp)
             /\ call' = Record("flush_buffer", <<>>, trace, "unit")
             /\ lastRef' = RefBitOf(writes[1].data[1])
             /\ UNCHANGED <<buffer, clear_state>>

flush_buffer(failed) ==
    LET v == Not(vcom)
        writes == Writes(FlushDatas(v), failed)
        trace == <<PinEvent("cs", TRUE)>> \o writes \o <<PinEvent("cs", FALSE)>>
    IN  /\ vcom' = v
        /\ touched' = TouchedAfterFlush(writes)
        /\ cs' = PinAfter(trace, "cs", cs)
        /\ disp' = PinAfter(trace, "disp", disp)
        /\ call' = Record("flush_buffer", <<>>, trace, "unit")
        /\ lastRef' = RefBitOf(writes[1].data[1])
        /\ UNCHANGED <<buffer, clear_state>>

\* ------------------------------------------------------------------------
\* MemoryDisplay::clear_buffer

ClearedBuffer == [y \in Rows |-> BitFill(buffer[y], is_on(clear_state))]

\* ClearedTouchedKeep: the faulty variant of ClearedTouched that marks nothing
ClearedTouchedKeep == touched

ClearedTouched == BitFill(touched, TRUE)

clear_buffer ==
    /\ buffer' = ClearedBuffer
    /\ touched' = ClearedTouched
    /\ call' = Record("clear_buffer", <<>>, <<>>, "unit")
    /\ UNCHANGED <<vcom, clear_state, cs, disp, lastRef>>

\* write_spi_bytewise: the faulty variant that writes each byte on its own
write_spi_bytewise(data, accepted) ==
    <<PinEvent("cs", TRUE)>>
      \o [k \in 1..Len(data) |-> SpiWrite(<<data[k]>>, accepted)]
      \o <<PinEvent("cs", FALSE)>>

\* MemoryDisplay::write_spi: the pin changes and the one bus write it makes
\* (write_spi_leave_high: the faulty variant that never lowers chip-select)
write_spi_leave_high(data, accepted) ==
    <<PinEvent("cs", TRUE), SpiWrite(data, accepted)>>

write_spi(data, accepted) ==
    <<PinEvent("cs", TRUE), SpiWrite(data, accepted), PinEvent("cs", FALSE)>>

\* MemoryDisplay::clear
clear(accepted) ==
    LET v == Not(vcom)
        trace == write_spi(<<BitOr(ClearMemory, v), DUMMY_DATA>>, accepted)
    IN  /\ buffer' = ClearedBuffer
        /\ touched' = ClearedTouched
        /\ vcom' = v
        /\ cs' = PinAfter(trace, "cs", cs)
        /\ disp' = PinAfter(trace, "disp", disp)
        /\ call' = Record("clear", <<>>, trace, "unit")
        /\ lastRef' = RefBitOf(SpiWrites(trace)[1].data[1])
        /\ UNCHANGED clear_state

\* MemoryDisplay::display_mode
display_mode(accepted) ==
    LET v == Not(vcom)
        trace == write_spi(<<BitOr(Nop, v), DUMMY_DATA>>, accepted)
    IN  /\ vcom' = v
        /\ cs' = PinAfter(trace, "cs", cs)
        /\ disp' = PinAfter(trace, "disp", disp)
        /\ call' = Record("display_mode", <<>>, trace, "unit")
        /\ lastRef' = RefBitOf(SpiWrites(trace)[1].data[1])
        /\ UNCHANGED <<buffer, touched, clear_state>>

\* ------------------------------------------------------------------------
\* Any call, with any arguments and any answers of the transport

Next ==
    \/ \E state \in {Off, On} : set_clear_state(state)
    \/ enable
    \/ disable
    \/ \E x \in PixelXs, y \in PixelYs, val \in {Off, On} : set_pixel(x, y, val)
    \/ \E failed \in FailSets(Len(FlushDatas(Not(vcom)))) : flush_buffer(failed)
    \/ clear_buffer
    \/ \E accepted \in BOOLEAN : clear(accepted)
    \/ \E accepted \in BOOLEAN : display_mode(accepted)

Spec == Init /\ [][Next]_vars

\* ------------------------------------------------------------------------
\* Vocabulary of the properties below

\* the calls that issue a bus transaction
TxOps == {"flush_buffer", "clear", "display_mode"}

\* bit reversal of a byte: bit i becomes bit 7 - i
Rev8(b) ==
    128 * Bit(b, 0) + 64 * Bit(b, 1) + 32 * Bit(b, 2) + 16 * Bit(b, 3)
      + 8 * Bit(b, 4) + 4 * Bit(b, 5) + 2 * Bit(b, 6) + Bit(b, 7)

\* the stored pixel (x, y) of a framebuffer
Pixel(buf, x, y) == BitGet(buf[y], x)

\* the lines marked in a touched store
Dirty(t) == {i \in 0..(BitLen(t) - 1) : BitGet(t, i)}

\* the byte sequences a call handed to the bus, one per write
Datas(c) ==
    LET ws == SpiWrites(c.trace)
    IN  [k \in 1..Len(ws) |-> ws[k].data]

\* the command byte of a transaction and the VCOM bit it carries
CommandByte(c) == Datas(c)[1][1]

CommandRef(c) == IF Bit(CommandByte(c), 6) = 1 THEN Hi ELSE Lo

\* the line frames of a flush: its writes between the command byte and the
\* final trailer
Frames(c) ==
    LET ds == Datas(c)
    IN  SubSeq(ds, 2, Len(ds) - 1)

\* the positions in a sequence of line frames of those that carry the line
\* number of row y
FramesOf(frames, y) == {k \in 1..Len(frames) : frames[k][1] = Rev8(y + 1)}

\* pixel x as a line frame shows it: payload byte x \div 8 follows the line
\* number, and the leftmost pixel of the byte is its top bit
FramePixel(frame, x) == Bit(frame[2 + (x \div 8)], 7 - (x % 8)) = 1

\* every byte a call transmitted, in order
RECURSIVE Flatten(_)
Flatten(seqs) == IF seqs = <<>> THEN <<>> ELSE Head(seqs) \o Flatten(Tail(seqs))

Bytes(c) == Flatten(Datas(c))

AllAccepted(c) == \A k \in 1..Len(c.trace) : c.trace[k].ok

\* ------------------------------------------------------------------------
\* C1: every flush_buffer, clear and display_mode call inverts vcom exactly
\* once and sends the inverted bit in its command byte, no other call
\* changes vcom or writes to the bus, so the bit of each transaction differs
\* from the bit of the transaction before it; the first one carries Lo.
C1_VcomAlternates ==
    [][ /\ call'.op \in TxOps =>
             /\ vcom' # vcom
             /\ vcom' \in {Lo, Hi}
             /\ CommandRef(call') = vcom'
             /\ lastRef # -1 => CommandRef(call') # lastRef
             /\ lastRef = -1 => CommandRef(call') = Lo
        /\ call'.op \notin TxOps =>
             /\ vcom' = vcom
             /\ SpiWrites(call'.trace) = <<>>
      ]_vars

\* a flush with two line frames that is an even-numbered transaction (it
\* carries Hi, the first one carried Lo), with the display enabled meanwhile
C1_Witness ==
    /\ call.op = "flush_buffer"
    /\ Len(Frames(call)) >= 2
    /\ CommandRef(call) = Hi
    /\ vcom = Hi
    /\ disp

\* ------------------------------------------------------------------------
\* C2: set_pixel(x, y, v) stores v at (x, y), marks row y, and changes no
\* other pixel and no other row's mark.
C2_SetPixelFrame ==
    [][ call'.op = "set_pixel" =>
          LET x == call'.args[1]
              y == call'.args[2]
              v == call'.args[3]
          IN  /\ Pixel(buffer', x, y) = v
              /\ y \in Dirty(touched')
              /\ \A yy \in Rows : \A xx \in 0..(WIDTH - 1) :
                    <<xx, yy>> # <<x, y>> =>
                        Pixel(buffer', xx, yy) = Pixel(buffer, xx, yy)
              /\ Dirty(touched') \ {y} = Dirty(touched) \ {y}
      ]_vars

\* the last pixel of the last row was just switched on while the first pixel
\* of the first row is on and only the first row is marked besides
C2_Witness ==
    /\ call.op = "set_pixel"
    /\ call.args = <<WIDTH - 1, HEIGHT - 1, On>>
    /\ Pixel(buffer, WIDTH - 1, HEIGHT - 1)
    /\ Pixel(buffer, 0, 0)
    /\ Dirty(touched) = {0, HEIGHT - 1}

\* ------------------------------------------------------------------------
\* C3: a flush sends exactly one line frame for every row marked since the
\* last flush, and that frame shows every pixel of the row as it is stored
\* when the flush runs; in particular the pixel written by the set_pixel
\* call just before the flush is shown with the value that call wrote.
C3_OneFramePerRowLatestValue ==
    [][ call'.op = "flush_buffer" =>
          LET frames == Frames(call')
          IN  /\ \A y \in Rows : y \in Dirty(touched) =>
                   /\ Cardinality(FramesOf(frames, y)) = 1
                   /\ \A k \in FramesOf(frames, y) : \A x \in 0..(WIDTH - 1) :
                         FramePixel(frames[k], x) = Pixel(buffer, x, y)
              /\ call.op = "set_pixel" =>
                   /\ FramesOf(frames, call.args[2]) # {}
                   /\ \A k \in FramesOf(frames, call.args[2]) :
                         FramePixel(frames[k], call.args[1]) = call.args[3]
      ]_vars

\* a flush that sent one frame, for row 0, showing its first pixel on and
\* its last pixel off
C3_Witness ==
    /\ call.op = "flush_buffer"
    /\ Len(Frames(call)) = 1
    /\ FramesOf(Frames(call), 0) = {1}
    /\ FramePixel(Frames(call)[1], 0)
    /\ ~FramePixel(Frames(call)[1], WIDTH - 1)
    /\ \A y \in Rows \ {0} : \A x \in 0..(WIDTH - 1) : ~Pixel(buffer, x, y)

\* ------------------------------------------------------------------------
\* C4: clear_buffer and clear leave every pixel at the configured clear
\* value and every row marked, whatever was marked before; a flush that
\* finds every row marked sends one frame per row, HEIGHT frames in all.
C4_ClearMarksEveryRow ==
    [][ /\ call'.op \in {"clear_buffer", "clear"} =>
             /\ \A y \in Rows : \A x \in 0..(WIDTH - 1) :
                   Pixel(buffer', x, y) = (clear_state = On)
             /\ Rows \subseteq Dirty(touched')
        /\ (call'.op = "flush_buffer" /\ Rows \subseteq Dirty(touched)) =>
             /\ Len(Frames(call')) = HEIGHT
             /\ \A y \in Rows : Cardinality(FramesOf(Frames(call'), y)) = 1
      ]_vars

\* a flush after a clear with the clear value Off: HEIGHT frames, every
\* pixel off
C4_Witness ==
    /\ call.op = "flush_buffer"
    /\ Len(Frames(call)) = HEIGHT
    /\ clear_state = Off
    /\ \A y \in Rows : \A x \in 0..(WIDTH - 1) : ~Pixel(buffer, x, y)
    /\ vcom = Hi

\* ------------------------------------------------------------------------
\* C5: after a flush whose bus writes were all accepted no row is marked,
\* and an unmarked store stays unmarked until set_pixel, clear_buffer or
\* clear runs.
C5_CleanAfterFlush ==
    [][ /\ (call'.op = "flush_buffer" /\ AllAccepted(call')) =>
             Dirty(touched') = {}
        /\ (Dirty(touched) = {} /\ Dirty(touched') # {}) =>
             call'.op \in {"set_pixel", "clear_buffer", "clear"}
      ]_vars

\* a flush of two marked rows, every write accepted, leaving nothing marked
C5_Witness ==
    /\ call.op = "flush_buffer"
    /\ AllAccepted(call)
    /\ Len(Frames(call)) = 2
    /\ Dirty(touched) = {}

\* ------------------------------------------------------------------------
\* C6: after a flush in which the transport failed a write, every row whose
\* line frame was not accepted is still marked when the call has returned.
C6_FailedRowsStayDirty ==
    (call.op = "flush_buffer" /\ ~AllAccepted(call)) =>
        LET ws == SpiWrites(call.trace)
        IN  \A k \in 2..(Len(ws) - 1) : \A y \in Rows :
                (~ws[k].ok /\ ws[k].data[1] = Rev8(y + 1)) => y \in Dirty(touched)

\* ------------------------------------------------------------------------
\* C7: a flush_buffer, clear or display_mode call during which a bus write
\* failed returns an error to its caller.
C7_FailureIsReported ==
    (call.op \in TxOps /\ ~AllAccepted(call)) => call.ret = "Err"

\* ------------------------------------------------------------------------
\* C8: chip-select is low whenever no call is running; every bus write
\* happens while chip-select is high; a transaction raises chip-select
\* before its first bus write, keeps it raised across all its writes and
\* lowers it after the last one, whether or not the writes were accepted.
C8_ChipSelectBrackets ==
    LET trace == call.trace
        n == Len(trace)
    IN  /\ cs = FALSE
        /\ \A k \in 1..n : trace[k].kind = "spi" =>
              PinAfter(SubSeq(trace, 1, k - 1), "cs", FALSE)
        /\ call.op \in TxOps =>
              /\ n >= 3
              /\ trace[1] = PinEvent("cs", TRUE)
              /\ trace[n] = PinEvent("cs", FALSE)
              /\ \A k \in 2..(n - 1) : trace[k].kind = "spi"

\* a flush of two rows has returned with the second line frame refused by
\* the transport
C8_Witness ==
    /\ call.op = "flush_buffer"
    /\ Len(call.trace) = 6
    /\ ~call.trace[4].ok
    /\ cs = FALSE

\* ------------------------------------------------------------------------
\* C9 as stated: with only pixel (0,0) on and only row 0 marked, a flush of
\* an 8 pixel wide panel transmits the six bytes 0x80|vcom, reverse(1),
\* reverse(0b10000000), 0x00, 0x00, 0x00.
C9_SixBytesAsStated ==
    [][ ( /\ call'.op = "flush_buffer"
          /\ WIDTH = 8
          /\ Dirty(touched) = {0}
          /\ \A y \in Rows : \A x \in 0..(WIDTH - 1) :
                Pixel(buffer, x, y) = (<<x, y>> = <<0, 0>>) ) =>
        Bytes(call') = <<128 + vcom', Rev8(1), Rev8(128), 0, 0, 0>>
      ]_vars

\* C9 as amended: in that scenario the flush transmits 0x80|vcom with the
\* inverted vcom (0x80 on a fresh driver), then reverse(1) = 0x80, then the
\* payload, whose first byte has pixel 0 in its top bit (reverse(0b00000001)
\* = 0x80) and whose other bytes are 0, then the line trailer 0x00, then one
\* frame-end byte 0x00: five bytes for an 8 pixel wide panel.
C9_FlushOfFirstPixel ==
    [][ ( /\ call'.op = "flush_buffer"
          /\ Dirty(touched) = {0}
          /\ \A y \in Rows : \A x \in 0..(WIDTH - 1) :
                Pixel(buffer, x, y) = (<<x, y>> = <<0, 0>>) ) =>
        /\ Bytes(call') = <<128 + vcom', Rev8(1), Rev8(1)>>
                             \o [k \in 1..(WidthBytes - 1) |-> 0] \o <<0, 0>>
        /\ Len(Bytes(call')) = WidthBytes + 4
        /\ lastRef = -1 => Bytes(call')[1] = 128
      ]_vars

\* the first transaction of a driver is the flush of pixel (0,0)
C9_Witness ==
    /\ call.op = "flush_buffer"
    /\ Bytes(call)[1] = 128
    /\ Bytes(call)[2] = 128
    /\ Bytes(call)[3] = 128
    /\ Len(Frames(call)) = 1
    /\ vcom = Lo
    /\ \A y \in Rows : \A x \in 0..(WIDTH - 1) :
          Pixel(buffer, x, y) = (<<x, y>> = <<0, 0>>)

\* ------------------------------------------------------------------------
\* The bytes of the last transaction, laid out as the protocol describes
\* them, with the command byte commandCode | referenceBit passed through
\* Enc: in every line frame the first byte is the bit reversal of the 1-based
\* line number of a row and each payload byte is the bit reversal of the
\* stored byte of that row (pixel 8k+i in bit i of byte k); the trailer of a
\* frame, the frame-end byte and the second byte of clear and display_mode
\* are 0x00.
WireLayout(Enc(_)) ==
    /\ call.op = "flush_buffer" =>
         LET ds == Datas(call)
             n  == Len(ds)
         IN  /\ ds[1] = <<Enc(WriteLine + vcom)>>
             /\ ds[n] = <<0>>
             /\ \A j \in 2..(n - 1) :
                   /\ Len(ds[j]) = WidthBytes + 2
                   /\ ds[j][WidthBytes + 2] = 0
                   /\ \E y \in Rows :
                        /\ ds[j][1] = Rev8(y + 1)
                        /\ \A k \in 0..(WidthBytes - 1) :
                              ds[j][2 + k] = Rev8(buffer[y][k])
    /\ call.op = "clear" => Datas(call) = << <<Enc(ClearMemory + vcom), 0>> >>
    /\ call.op = "display_mode" => Datas(call) = << <<Enc(Nop + vcom), 0>> >>

AsIs(b) == b

\* C10 as stated: every transmitted byte is the bit reversal of its logical
\* value, the command byte commandCode | referenceBit included, except the
\* filler and trailer bytes, which are 0x00.
C10_EveryByteReversed == WireLayout(Rev8)

\* C10 as amended: the line-number byte and every payload byte are the bit
\* reversal of their logical value and the filler and trailer bytes are
\* 0x00, but the command byte is transmitted as commandCode | referenceBit
\* itself, not reversed.
C10_WireBytes == WireLayout(AsIs)

\* a flush carrying the Hi bit has sent the frame of the last row with its
\* last pixel on: 0xC0, then reverse(HEIGHT), ..., 0x01, 0x00, then 0x00
C10_Witness ==
    /\ call.op = "flush_buffer"
    /\ CommandByte(call) = 192
    /\ Len(Frames(call)) = 1
    /\ Frames(call)[1][1] = Rev8(HEIGHT)
    /\ Frames(call)[1][WidthBytes + 1] = 1

\* ------------------------------------------------------------------------
\* MemoryDisplay::swap on its own: a byte is chosen, and swap is applied to
\* it and then to each result in turn.  The driver itself stays as new()
\* left it.

Fresh ==
    /\ buffer = [y \in Rows |-> [e \in 0..(Elts(WIDTH) - 1) |-> 0]]
    /\ touched = [e \in 0..(Elts(HEIGHT) - 1) |-> 0]
    /\ vcom = Hi
    /\ clear_state = On
    /\ disp = FALSE
    /\ cs = FALSE
    /\ lastRef = -1

SwapInit ==
    /\ Fresh
    /\ \E b \in 0..255 : call = Record("byte", <<>>, <<>>, b)

\* swap(BitSlice::from_element(&b)) for the byte b at hand
swap_call ==
    /\ call' = Record("swap", <<call.ret>>, <<>>, swap(FromElement(call.ret)))
    /\ UNCHANGED <<buffer, touched, vcom, clear_state, cs, disp, lastRef>>

SwapSpec == SwapInit /\ [][swap_call]_vars

\* C11: swap reverses the bits of a byte: bit i of its argument is bit 7 - i
\* of its result, swapping a result of swap gives back the byte swapped
\* before, swap(0b00000001) = 0b10000000 and swap(0b11000000) = 0b00000011.
C11_SwapReversesBits ==
    [][ call'.op = "swap" =>
          /\ call'.ret \in 0..255
          /\ \A i \in 0..7 : Bit(call'.ret, 7 - i) = Bit(call'.args[1], i)
          /\ call.op = "swap" => call'.ret = call.args[1]
          /\ call'.args[1] = 1 => call'.ret = 128
          /\ call'.args[1] = 192 => call'.ret = 3
      ]_vars

\* swap has turned 0b11000000 into 0b00000011
C11_Witness ==
    /\ call.op = "swap"
    /\ call.args = <<192>>
    /\ call.ret = 3

\* ------------------------------------------------------------------------
\* DrawTarget::draw_iter

\* Pixel(coord, color)
Px(px, py, c) == [x |-> px, y |-> py, color |-> c]

\* the loop of draw_iter over the pixels left, on the framebuffer and the
\* touched store as they are so far: a pixel outside the display is passed
\* over, any other goes to set_pixel  (DrawLoopStopOutside: the faulty
\* variant that leaves the loop at the first pixel outside)
RECURSIVE DrawLoopStopOutside(_, _, _)
DrawLoopStopOutside(pixels, buf, tch) ==
    IF pixels = <<>> THEN <<buf, tch>>
    ELSE LET coord == Head(pixels)
             color == Head(pixels).color
         IN  IF coord.x < 0 \/ coord.x >= WIDTH \/ coord.y < 0 \/ coord.y >= HEIGHT
             THEN <<buf, tch>>
             ELSE DrawLoopStopOutside(Tail(pixels),
                      [buf EXCEPT ![coord.y] = BitSet(buf[coord.y], coord.x, color)],
                      BitSet(tch, coord.y, TRUE))

RECURSIVE DrawLoop(_, _, _)
DrawLoop(pixels, buf, tch) ==
    IF pixels = <<>> THEN <<buf, tch>>
    ELSE LET coord == Head(pixels)
             color == Head(pixels).color
         IN  IF coord.x < 0 \/ coord.x >= WIDTH \/ coord.y < 0 \/ coord.y >= HEIGHT
             THEN DrawLoop(Tail(pixels), buf, tch)
             ELSE DrawLoop(Tail(pixels),
                      [buf EXCEPT ![coord.y] = BitSet(buf[coord.y], coord.x, color)],
                      BitSet(tch, coord.y, TRUE))

draw_iter(item_pixels) ==
    LET done == DrawLoop(item_pixels, buffer, touched)
    IN  /\ buffer' = done[1]
        /\ touched' = done[2]
        /\ call' = Record("draw_iter", <<item_pixels>>, <<>>, "Ok")
        /\ UNCHANGED <<vcom, clear_state, cs, disp, lastRef>>

\* Pixels handed to draw_iter: the two opposite corners of the display and
\* the nearest coordinate outside it on each of its four sides
InsidePixels ==
    {Px(0, 0, On), Px(0, 0, Off), Px(WIDTH - 1, HEIGHT - 1, On)}

OutsidePixels ==
    {Px(-1, 0, On), Px(WIDTH, HEIGHT - 1, On), Px(0, -1, On), Px(WIDTH - 1, HEIGHT, On)}

\* Pixel streams handed to draw_iter: none, one pixel, and an outside pixel
\* before, after and between inside pixels
DrawStreams ==
    {<<>>}
      \cup {<<p>> : p \in InsidePixels \cup OutsidePixels}
      \cup {<<o, Px(0, 0, On)>> : o \in OutsidePixels}
      \cup {<<Px(WIDTH - 1, HEIGHT - 1, On), o>> : o \in OutsidePixels}
      \cup {<<Px(0, 0, On), o, q>> : o \in OutsidePixels, q \in InsidePixels}

\* The calls that read or write the framebuffer and the touched store, on a
\* transport that accepts every write, with set_pixel called on the pixels
\* that draw_iter is given
DrawNext ==
    \/ \E item_pixels \in DrawStreams : draw_iter(item_pixels)
    \/ \E p \in InsidePixels : set_pixel(p.x, p.y, p.color)
    \/ \E state \in {Off, On} : set_clear_state(state)
    \/ clear_buffer
    \/ clear(TRUE)
    \/ flush_buffer({})
    \/ display_mode(TRUE)

DrawSpec == Init /\ [][DrawNext]_vars

\* whether a coordinate lies on the display
OnDisplay(p) == 0 <= p.x /\ p.x < WIDTH /\ 0 <= p.y /\ p.y < HEIGHT

\* C12: draw_iter applies the pixels of its stream that lie on the display,
\* in order, and nothing else: every pixel of the framebuffer ends with the
\* colour of the last on-display pixel of the stream at its coordinate, or
\* unchanged if there is none, and exactly the rows of the on-display pixels
\* are newly marked, wherever the off-display pixels stand in the stream;
\* the call returns Ok, writes nothing to the bus and moves no pin.
C12_DrawIterDropsOutside ==
    [][ call'.op = "draw_iter" =>
          LET stream == call'.args[1]
              kept == SelectSeq(stream, OnDisplay)
              At(x, y) == {k \in 1..Len(kept) : kept[k].x = x /\ kept[k].y = y}
              Last(S) == CHOOSE k \in S : \A j \in S : j <= k
          IN  /\ call'.ret = "Ok"
              /\ call'.trace = <<>>
              /\ \A y \in Rows : \A x \in 0..(WIDTH - 1) :
                    Pixel(buffer', x, y) =
                       IF At(x, y) = {} THEN Pixel(buffer, x, y)
                       ELSE kept[Last(At(x, y))].color
              /\ Dirty(touched') =
                    Dirty(touched) \cup {kept[k].y : k \in 1..Len(kept)}
              /\ <<vcom', cs', disp'>> = <<vcom, cs, disp>>
      ]_vars

\* draw_iter was given the first pixel, a pixel right of the display and the
\* last pixel: both corner pixels are on and exactly their rows are marked
C12_Witness ==
    /\ call.op = "draw_iter"
    /\ call.args[1] = <<Px(0, 0, On), Px(WIDTH, HEIGHT - 1, On),
                        Px(WIDTH - 1, HEIGHT - 1, On)>>
    /\ Pixel(buffer, 0, 0)
    /\ Pixel(buffer, WIDTH - 1, HEIGHT - 1)
    /\ Dirty(touched) = {0, HEIGHT - 1}

\* ------------------------------------------------------------------------
\* the indices of a touched store that are no row of the display
Padding(t) == (0..(BitLen(t) - 1)) \ Rows

\* C13 as stated: every index marked in the touched store is a row of the
\* display, and marking a row that is already marked changes no mark.
C13_MarksAreRows ==
    [][ /\ Dirty(touched') \subseteq Rows
        /\ (call'.op = "set_pixel" /\ call'.args[2] \in Dirty(touched)) =>
              Dirty(touched') = Dirty(touched)
      ]_vars

\* C13 as amended: every marked index is below the length of the store,
\* 8 * ceil(HEIGHT / 8); set_pixel and draw_iter mark rows of the display
\* only, and marking a row that is already marked changes no mark; but
\* clear_buffer and clear mark the whole store, so when HEIGHT is not a
\* multiple of 8 the indices from HEIGHT up to the length of the store are
\* marked too, all together, until the next flush_buffer.
C13_MarksAreInStore ==
    [][ /\ Dirty(touched') \subseteq 0..(8 * ((HEIGHT + 7) \div 8) - 1)
        /\ call'.op \in {"set_pixel", "draw_iter"} =>
              (Dirty(touched') \ Dirty(touched)) \subseteq Rows
        /\ (call'.op = "set_pixel" /\ call'.args[2] \in Dirty(touched)) =>
              Dirty(touched') = Dirty(touched)
        /\ call'.op \in {"clear_buffer", "clear"} =>
              Dirty(touched') = Rows \cup Padding(touched')
        /\ (Dirty(touched') \cap Padding(touched') # {}) =>
              /\ Dirty(touched') = Rows \cup Padding(touched')
              /\ call'.op # "flush_buffer"
      ]_vars

\* set_pixel has run on a row that clear_buffer had marked, together with
\* the indices HEIGHT and above, which are still marked
C13_Witness ==
    /\ call.op = "set_pixel"
    /\ HEIGHT % 8 # 0
    /\ HEIGHT \in Dirty(touched)
    /\ Dirty(touched) = Rows \cup Padding(touched)

\* ------------------------------------------------------------------------
\* MemoryDisplay::flush_buffer, one statement at a time.  call.ret of a
\* running flush names the statement it is about to execute, call.trace is
\* what it has done so far; the method holds &mut self, so no other method
\* runs before it has returned.

Running == {"command", "loop", "cs_low", "fill"}

Returned == call.ret \notin Running

Step(events, position) ==
    Record("flush_buffer", <<>>, call.trace \o events, position)

\* the rest of touched.iter_ones() after the lines written so far
Remaining ==
    LET ys == IterOnes(touched)
        done == Len(SpiWrites(call.trace)) - 1
    IN  SubSeq(ys, done + 1, Len(ys))

\* the loop is left when the iterator is exhausted or by the break of
\* l.218-220
LoopDone == IF Remaining = <<>> THEN TRUE ELSE Head(Remaining) >= HEIGHT

\* l.208
flush_cs_high ==
    /\ Returned
    /\ cs' = TRUE
    /\ call' = Record("flush_buffer", <<>>, <<PinEvent("cs", TRUE)>>, "command")
    /\ UNCHANGED <<buffer, touched, vcom, clear_state, disp, lastRef>>

\* l.210-211
flush_command(accepted) ==
    /\ call.ret = "command"
    /\ vcom' = Not(vcom)
    /\ call' = Step(<<SpiWrite(<<BitOr(WriteLine, vcom')>>, accepted)>>, "loop")
    /\ lastRef' = vcom'
    /\ UNCHANGED <<buffer, touched, clear_state, cs, disp>>

\* l.214-239, one turn of the loop
flush_line(accepted) ==
    /\ call.ret = "loop"
    /\ Remaining # <<>>
    /\ Head(Remaining) < HEIGHT
    /\ LET y == Head(Remaining)
       IN  call' = Step(<<SpiWrite(WriteBuffer(y, buffer[y]), accepted)>>, "loop")
    /\ UNCHANGED <<buffer, touched, vcom, clear_state, cs, disp, lastRef>>

\* the end of the loop and l.242 (flush_trailer_then_fill: the faulty variant that clears touched
\* here already)
flush_trailer_then_fill(accepted) ==
    /\ call.ret = "loop"
    /\ LoopDone
    /\ call' = Step(<<SpiWrite(<<DUMMY_DATA>>, accepted)>>, "cs_low")
    /\ touched' = BitFill(touched, FALSE)
    /\ UNCHANGED <<buffer, vcom, clear_state, cs, disp, lastRef>>

flush_trailer(accepted) ==
    /\ call.ret = "loop"
    /\ LoopDone
    /\ call' = Step(<<SpiWrite(<<DUMMY_DATA>>, accepted)>>, "cs_low")
    /\ UNCHANGED <<buffer, touched, vcom, clear_state, cs, disp, lastRef>>

\* l.244
flush_cs_low ==
    /\ call.ret = "cs_low"
    /\ cs' = FALSE
    /\ call' = Step(<<PinEvent("cs", FALSE)>>, "fill")
    /\ UNCHANGED <<buffer, touched, vcom, clear_state, disp, lastRef>>

\* l.246 and the return
flush_fill ==
    /\ call.ret = "fill"
    /\ touched' = BitFill(touched, FALSE)
    /\ call' = Step(<<>>, "unit")
    /\ UNCHANGED <<buffer, vcom, clear_state, cs, disp, lastRef>>

StepNext ==
    \/ Returned /\ \E x \in PixelXs, y \in PixelYs, val \in {Off, On} : set_pixel(x, y, val)
    \/ Returned /\ clear_buffer
    \/ Returned /\ display_mode(TRUE)
    \/ flush_cs_high
    \/ \E accepted \in BOOLEAN : flush_command(accepted)
    \/ \E accepted \in BOOLEAN : flush_line(accepted)
    \/ \E accepted \in BOOLEAN : flush_trailer(accepted)
    \/ flush_cs_low
    \/ flush_fill

StepSpec == Init /\ [][StepNext]_vars


\* the members of a set of numbers in ascending order
RECURSIVE Ascending(_)
Ascending(S) ==
    IF S = {} THEN <<>>
    ELSE LET least == CHOOSE m \in S : \A o \in S : m <= o
         IN  <<least>> \o Ascending(S \ {least})

\* C14: what a flush_buffer call does is, in this order: chip select high,
\* one write of the command byte 0x80 + the vcom bit it has just inverted,
\* one line frame per row that was marked when the call began, by ascending
\* row, one write of the trailer byte 0x00, chip select low; touched is
\* cleared only after all of that, and is clear when the call returns.
C14_FlushOrder ==
    [][ call'.op = "flush_buffer" =>
          LET rows == Ascending(Dirty(touched) \cap Rows)
              n == Len(rows)
              t == call'.trace
              InOrder(i) ==
                  IF i = 1 THEN t[i].kind = "cs" /\ t[i].high
                  ELSE IF i = 2 THEN
                      /\ t[i].kind = "spi"
                      /\ t[i].data = <<128 + vcom'>>
                  ELSE IF i <= n + 2 THEN
                      /\ t[i].kind = "spi"
                      /\ t[i].data[1] = Rev8(rows[i - 2] + 1)
                  ELSE IF i = n + 3 THEN
                      /\ t[i].kind = "spi"
                      /\ t[i].data = <<0>>
                  ELSE t[i].kind = "cs" /\ ~t[i].high
          IN  /\ Len(t) <= n + 4
              /\ \A i \in 1..Len(t) : InOrder(i)
              /\ \A i \in 1..(n - 1) : rows[i] < rows[i + 1]
              /\ (Len(t) = 2 /\ Len(call.trace) = 1) => vcom' # vcom
              /\ touched' # touched =>
                    /\ Len(t) = n + 4
                    /\ call'.trace = call.trace
              /\ call'.ret = "unit" =>
                    /\ Len(t) = n + 4
                    /\ Dirty(touched') = {}
      ]_vars

\* a flush of the first and the last row has returned
C14_Witness ==
    /\ call.op = "flush_buffer"
    /\ call.ret = "unit"
    /\ Len(call.trace) = 6
    /\ call.trace[3].data[1] = Rev8(1)
    /\ call.trace[4].data[1] = Rev8(HEIGHT)
    /\ ~call.trace[6].high
    /\ Dirty(touched) = {}


\* ------------------------------------------------------------------------
\* pixels 8k .. 8k + 7 of row y packed into a byte, pixel 8k + i in bit i,
\* a set bit for a pixel that is on
Packed(buf, y, k) ==
    LET P(i) == IF Pixel(buf, 8 * k + i, y) THEN 2 ^ i ELSE 0
    IN  P(0) + P(1) + P(2) + P(3) + P(4) + P(5) + P(6) + P(7)

\* C15: the frame flush_buffer writes for a marked row y has WIDTH / 8 + 2
\* bytes: the bit-reversed line number y + 1, then for each k below
\* ceil(WIDTH / 8) the bit-reversed packed pixels 8k .. 8k + 7 of the row,
\* then 0x00.
C15_FrameLayout ==
    [][ call'.op = "flush_buffer" =>
          LET rows == Ascending(Dirty(touched) \cap Rows)
              frames == Frames(call')
              payload == (WIDTH + 7) \div 8
          IN  /\ Len(frames) = Len(rows)
              /\ \A n \in 1..Len(rows) :
                   LET y == rows[n]
                       frame == frames[n]
                   IN  /\ Len(frame) = (WIDTH \div 8) + 2
                       /\ frame[1] = Rev8(y + 1)
                       /\ \A k \in 0..(payload - 1) :
                            frame[2 + k] = Rev8(Packed(buffer, y, k))
                       /\ frame[payload + 2] = 0
                       /\ Len(frame) = payload + 2
      ]_vars

\* a flush has sent row 0 with only its first pixel on and the last row
\* with only its last pixel on
C15_Witness ==
    /\ call.op = "flush_buffer"
    /\ Len(Frames(call)) = 2
    /\ Frames(call)[1] = <<128>> \o <<128>> \o [k \in 1..(WidthBytes - 1) |-> 0] \o <<0>>
    /\ Frames(call)[2] = <<Rev8(HEIGHT)>> \o [k \in 1..(WidthBytes - 1) |-> 0] \o <<1>> \o <<0>>


\* ------------------------------------------------------------------------
\* C16: what clear and display_mode do on the pins and the bus is chip
\* select high, one write of two bytes, chip select low; the bytes are
\* 0x20 + r, 0x00 for clear and 0x00 + r, 0x00 for display_mode, r being
\* the vcom bit, 0x00 or 0x40, as inverted by the same call.
C16_TwoByteCommands ==
    [][ call'.op \in {"clear", "display_mode"} =>
          LET code == IF call'.op = "clear" THEN 32 ELSE 0
              t == call'.trace
          IN  /\ vcom' \in {0, 64}
              /\ vcom' # vcom
              /\ Len(t) = 3
              /\ t[1].kind = "cs" /\ t[1].high
              /\ t[2].kind = "spi"
              /\ t[2].data = <<code + vcom', 0>>
              /\ t[3].kind = "cs" /\ ~t[3].high
      ]_vars

\* display_mode has sent 0x40, 0x00 right after a transaction that carried
\* the vcom bit 0x00
C16_Witness ==
    /\ call.op = "display_mode"
    /\ Datas(call) = << <<64, 0>> >>
    /\ vcom = 64
    /\ ~cs


\* ------------------------------------------------------------------------
\* C17: enable and disable drive the display pin, high and low, and nothing
\* else: no bus write, and buffer, touched, vcom and chip select stay as
\* they were; display_mode leaves buffer and touched as they were.
C17_EnableDisableFrame ==
    [][ /\ call'.op \in {"enable", "disable"} =>
             /\ call'.trace = <<PinEvent("disp", call'.op = "enable")>>
             /\ disp' = (call'.op = "enable")
             /\ SpiWrites(call'.trace) = <<>>
             /\ \A x \in 0..(WIDTH - 1), y \in Rows :
                   Pixel(buffer', x, y) = Pixel(buffer, x, y)
             /\ Dirty(touched') = Dirty(touched)
             /\ vcom' = vcom
             /\ cs' = cs
        /\ call'.op = "display_mode" =>
             /\ \A x \in 0..(WIDTH - 1), y \in Rows :
                   Pixel(buffer', x, y) = Pixel(buffer, x, y)
             /\ Dirty(touched') = Dirty(touched)
      ]_vars

\* display_mode has run on an enabled display with the first row marked and
\* its first pixel on
C17_Witness ==
    /\ call.op = "display_mode"
    /\ disp
    /\ Dirty(touched) = {0}
    /\ Pixel(buffer, 0, 0)


\* ------------------------------------------------------------------------
\* C18 as stated: flush_buffer with no row marked writes nothing to the
\* bus, leaves chip select alone, and leaves vcom, buffer and touched as
\* they were.
C18_CleanFlushIsNoOp ==
    [][ (call'.op = "flush_buffer" /\ Dirty(touched) \cap Rows = {}) =>
          /\ SpiWrites(call'.trace) = <<>>
          /\ \A i \in 1..Len(call'.trace) : call'.trace[i].kind # "cs"
          /\ vcom' = vcom
          /\ buffer' = buffer
          /\ Dirty(touched') = Dirty(touched)
      ]_vars

\* C18 as amended: flush_buffer with no row marked sends no line frame and
\* leaves buffer and touched as they were, but it is a transaction all the
\* same: chip select high, the command byte 0x80 + the inverted vcom bit,
\* the trailer byte 0x00, chip select low.
C18_CleanFlushIsEmptyTransaction ==
    [][ (call'.op = "flush_buffer" /\ Dirty(touched) \cap Rows = {}) =>
          LET t == call'.trace
          IN  /\ Len(t) = 4
              /\ t[1].kind = "cs" /\ t[1].high
              /\ t[2].kind = "spi" /\ t[2].data = <<128 + vcom'>>
              /\ t[3].kind = "spi" /\ t[3].data = <<0>>
              /\ t[4].kind = "cs" /\ ~t[4].high
              /\ vcom' # vcom
              /\ buffer' = buffer
              /\ Dirty(touched') = Dirty(touched)
      ]_vars

\* a flush with nothing to send has run while the buffer holds a pixel
\* (sent by an earlier flush)
C18_Witness ==
    /\ call.op = "flush_buffer"
    /\ Frames(call) = <<>>
    /\ Len(Datas(call)) = 2
    /\ lastRef = vcom
    /\ Pixel(buffer, 0, 0)
    /\ Dirty(touched) = {}


\* ------------------------------------------------------------------------
\* C19: the line numbers of the frames of a flush_buffer are those of the
\* marked rows below HEIGHT, each once, by ascending row, also when indices
\* of touched from HEIGHT up are marked: no frame for an index that is no
\* row, and no marked row left out by the break.  Right after clear_buffer
\* or clear that is HEIGHT frames, numbered 1 .. HEIGHT.
C19_NoFrameBeyondHeight ==
    [][ call'.op = "flush_buffer" =>
          LET frames == Frames(call')
              rows == Ascending({y \in Dirty(touched) : y < HEIGHT})
          IN  /\ \A k \in 1..Len(frames) :
                   \E y \in 0..(HEIGHT - 1) : frames[k][1] = Rev8(y + 1)
              /\ Len(frames) = Len(rows)
              /\ \A k \in 1..Len(rows) : frames[k][1] = Rev8(rows[k] + 1)
              /\ call.op \in {"clear_buffer", "clear"} =>
                   /\ Len(frames) = HEIGHT
                   /\ \A k \in 1..HEIGHT : frames[k][1] = Rev8(k)
      ]_vars

\* a flush has sent every row, 1 .. HEIGHT, of a display whose HEIGHT is not
\* a multiple of 8: only clear_buffer marks them all, together with the
\* indices HEIGHT .. 8 * ceil(HEIGHT / 8) - 1
C19_Witness ==
    /\ call.op = "flush_buffer"
    /\ HEIGHT % 8 # 0
    /\ Len(Frames(call)) = HEIGHT
    /\ Frames(call)[HEIGHT][1] = Rev8(HEIGHT)
    /\ Len(call.trace) = HEIGHT + 4


\* ------------------------------------------------------------------------
\* The line number byte of write_buffer, for the heights of the three
\* display modules and for a height above 255.

\* HEIGHT of ls011b7dh03, ls013b7dh05, ls012b7dd06
Heights == {68, 168, 240}

\* the largest height tried, a height no module has
MaxHeight == 260

LineInit ==
    /\ Fresh
    /\ \E h \in Heights \cup {MaxHeight} : call = Record("HEIGHT", <<h>>, <<>>, h)

\* write_buffer[0] for line y of a display of the chosen height
line_no_call(y) ==
    LET h == call.args[1]
        line_buffer_msb == [e \in 0..(Elts(WIDTH) - 1) |-> 0]
    IN  /\ y < h
        /\ call' = Record("line_no", <<h, y>>, <<>>, WriteBuffer(y, line_buffer_msb)[1])
        /\ UNCHANGED <<buffer, touched, vcom, clear_state, cs, disp, lastRef>>

LineNext == \E y \in 0..(MaxHeight - 1) : line_no_call(y)

LineSpec == LineInit /\ [][LineNext]_vars

\* C20: with HEIGHT 68, 168 or 240, y + 1 is at most 255 for every line y,
\* so the line number byte is the reversed y + 1, is not 0, and the bytes
\* of two different lines differ; with a HEIGHT above 255 the number wraps:
\* line 255 gets byte 0 and line 256 the byte of line 0.
C20_LineNumberFits ==
    [][ call'.op = "line_no" =>
          LET h == call'.args[1]
              y == call'.args[2]
          IN  /\ h \in {68, 168, 240} =>
                   /\ y + 1 <= 255
                   /\ call'.ret = Rev8(y + 1)
                   /\ call'.ret \in 1..255
                   /\ (call.op = "line_no" /\ call.args[2] # y) =>
                         call'.ret # call.ret
              /\ h > 255 =>
                   /\ y = 255 => call'.ret = 0
                   /\ y = 256 => call'.ret = Rev8(1)
                   /\ (call.op = "line_no" /\ call.args[2] = y + 256) =>
                         call'.ret = call.ret
      ]_vars

\* the byte of the last line of the tallest module: 240 reversed is 15
C20_Witness ==
    /\ call.op = "line_no"
    /\ call.args = <<240, 239>>
    /\ call.ret = Rev8(240)
    /\ call.ret = 15

=============================================================================
